---- MODULE Spec2Model ----
(***************************************************************************)
(* Model of the ingestion pipeline of ihatesheets: sheets.py (search ->     *)
(* parse -> dedup -> cache-checked download -> cache write), the DFhandler  *)
(* download with its gspread fallback loop, and the Redis cache they use.   *)
(*                                                                          *)
(* Texts (titles, bodies, URLs) are sequences of tokens.  A token is a      *)
(* string that stands for itself; the tokens of IdTokens consist only of    *)
(* characters of the regex class [a-zA-Z0-9-_], every other token is a      *)
(* single character outside that class.                                     *)
(* Instants (created, datetime.now()) are integers.                         *)
(***************************************************************************)
EXTENDS Integers, Sequences, FiniteSets, TLC

\* Python's None, for optional texts and ids (a token no text contains)
None == <<"<None>">>

\* ---------------------------------------------------------------- bounds
MaxSearch == 2
MaxRuns == 2
MaxPosts == 3
MaxCreated == 2
MaxComments == 2
MaxNoise == 3
MaxRows == 2
MaxHeaders == 2
MaxWords == 3

\* ------------------------------------------------------- sequence helpers
Range(s) == {s[k] : k \in 1..Len(s)}

Drop(s, n) == SubSeq(s, n + 1, Len(s))

Take(s, n) == SubSeq(s, 1, n)

\* t occurs in s starting at position k
MatchAt(s, t, k) ==
    /\ k >= 1
    /\ k + Len(t) - 1 <= Len(s)
    /\ \A m \in 1..Len(t) : s[k + m - 1] = t[m]

\* python: t in s
Contains(s, t) == \E k \in 1..(Len(s) + 1) : MatchAt(s, t, k)

\* python: s.find(t), 1-based; 0 when t does not occur
Find(s, t) ==
    IF Contains(s, t)
    THEN CHOOSE k \in 1..(Len(s) + 1) :
            /\ MatchAt(s, t, k)
            /\ \A m \in 1..(k - 1) : ~MatchAt(s, t, m)
    ELSE 0

\* python: s.replace(c, "") for a one-token c
RECURSIVE Remove(_, _)
Remove(s, c) ==
    IF s = <<>> THEN <<>>
    ELSE IF Head(s) = c THEN Remove(Tail(s), c)
    ELSE <<Head(s)>> \o Remove(Tail(s), c)

\* the longest prefix of s without a token of stop
RECURSIVE PrefixUntil(_, _)
PrefixUntil(s, stop) ==
    IF s = <<>> \/ Head(s) \in stop THEN <<>>
    ELSE <<Head(s)>> \o PrefixUntil(Tail(s), stop)

\* -------------------------------------------------------------- sheets.py
BASE_URL == <<"https://docs.google.com", "/">>

Whitespace == {" "}

IdTokens == {"spreadsheets", "document", "d", "e", "u", "0", "edit", "key",
             "pubhtml", "htmlview", "ID1", "ID2", "see", "reddit"}

\* python: s[k:] for the 0-based index k = find(...), which is -1 (the last
\* token on) when nothing was found; at is the 1-based index, 0 for that
SliceFrom(s, at) == IF at = 0 THEN Drop(s, Len(s) - 1) ELSE Drop(s, at - 1)

\* python: s.lstrip()
RECURSIVE LStrip(_)
LStrip(s) == IF s # <<>> /\ Head(s) \in Whitespace THEN LStrip(Tail(s)) ELSE s

\* python: comment[comment.find(BASE_URL):].split()[0]
FirstWord(text) ==
    PrefixUntil(LStrip(SliceFrom(text, Find(text, BASE_URL))), Whitespace)

\* clean_url, its four rewrites in order
CutBracket(ss_url) ==
    IF "]" \in Range(ss_url) THEN PrefixUntil(ss_url, {"]"}) ELSE ss_url

CutPeriod(ss_url) ==
    IF ss_url # <<>> /\ ss_url[Len(ss_url)] = "."
    THEN Take(ss_url, Len(ss_url) - 1)
    ELSE ss_url

CutEscapes(ss_url) ==
    IF "\\" \in Range(ss_url) THEN Remove(Remove(ss_url, ")"), "\\") ELSE ss_url

CutParens(ss_url) ==
    IF ")" \in Range(ss_url) THEN Remove(ss_url, ")") ELSE ss_url

clean_url(comment) ==
    CutParens(CutEscapes(CutPeriod(CutBracket(FirstWord(comment)))))

\* python truthiness of an optional text
Truthy(text) == text # None /\ text # <<>>

RECURSIVE FirstCommentUrl(_)
FirstCommentUrl(comments) ==
    IF comments = <<>> THEN None
    ELSE IF Contains(Head(comments), BASE_URL) THEN clean_url(Head(comments))
    ELSE FirstCommentUrl(Tail(comments))

\* mutant: the link URL is looked at before the self-text, whatever that is
find_sheet_url_link_first(post) ==
    IF Contains(post.title, BASE_URL) THEN clean_url(post.title)
    ELSE IF Contains(post.url, BASE_URL) THEN post.url
    ELSE IF Truthy(post.selftext) /\ Contains(post.selftext, BASE_URL)
         THEN clean_url(post.selftext)
    ELSE FirstCommentUrl(post.comments)

find_sheet_url(post) ==
    IF Contains(post.title, BASE_URL) THEN clean_url(post.title)
    ELSE IF Truthy(post.selftext) /\ Contains(post.selftext, BASE_URL)
         THEN clean_url(post.selftext)
    ELSE IF ~Truthy(post.selftext) /\ Contains(post.url, BASE_URL) THEN post.url
    ELSE FirstCommentUrl(post.comments)

\* re.search(prefix + "([a-zA-Z0-9-_]+)", url).group(1): the leftmost place
\* where prefix is followed by a token of the class, and the run of such
\* tokens from there; None when there is no match
IdRun(s) == PrefixUntil(s, {t \in Range(s) : t \notin IdTokens})

GroupAt(url, prefix, hits) ==
    IF hits = {} THEN None
    ELSE IdRun(Drop(url, (CHOOSE h \in hits : \A g \in hits : h <= g)
                         + Len(prefix) - 1))

SearchGroup(url, prefix) ==
    GroupAt(url, prefix, {k \in 1..Len(url) :
                            /\ MatchAt(url, prefix, k)
                            /\ k + Len(prefix) <= Len(url)
                            /\ url[k + Len(prefix)] \in IdTokens})

\* mutant: the rules the other way round
patterns_swapped ==
    << <<"/", "spreadsheets", "/", "u", "/", "0", "/", "d", "/">>,
       <<"/", "spreadsheets", "/", "d", "/", "e", "/">> >>

patterns == << <<"/", "spreadsheets", "/", "d", "/", "e", "/">>,
               <<"/", "spreadsheets", "/", "u", "/", "0", "/", "d", "/">> >>

\* gspread.utils.extract_id_from_url: URL_KEY_V2_RE "/spreadsheets/d/(id)",
\* then URL_KEY_V1_RE "key=([^&#]+)"; None stands for NoValidUrlKeyFound
\* first if it matched, else second
OrElse(first, second) == IF first # None THEN first ELSE second

KeyGroup(url, at) ==
    IF at = 0 \/ PrefixUntil(Drop(url, at + 1), {"&", "#"}) = <<>> THEN None
    ELSE PrefixUntil(Drop(url, at + 1), {"&", "#"})

extract_id_from_url(url) ==
    OrElse(SearchGroup(url, <<"/", "spreadsheets", "/", "d", "/">>),
           KeyGroup(url, Find(url, <<"key", "=">>)))

gen_doc_id(sheet_url) ==
    OrElse(SearchGroup(sheet_url, patterns[1]),
           OrElse(SearchGroup(sheet_url, patterns[2]),
                  extract_id_from_url(sheet_url)))

\* -------------------------------------------------------------- models.py
\* sheet_dl_date: Optional[datetime] = None
NoInstant == -1

\* Flair texts are sequences of words (python: str.split()); the words that
\* int() accepts are those of IntWords, the words of DigitWords satisfy
\* str.isdigit()
DigitWords == {"0", "5", "12"}

IntWords == DigitWords \cup {"-3"}

IntOf(w) == CASE w = "0" -> 0 [] w = "5" -> 5 [] w = "12" -> 12 [] w = "-3" -> -3

\* Author.__post_init__: the flair is whatever the flair text parses to
AuthorFlair(flair_text) ==
    IF Truthy(flair_text)
    THEN IF flair_text[1] \in DigitWords THEN IntOf(flair_text[1])
         ELSE IF Len(flair_text) >= 3 /\ flair_text[3] \in IntWords
              THEN IntOf(flair_text[3])
              ELSE 0
    ELSE 0

Author(name, author_flair_text) ==
    [name |-> name, flair |-> AuthorFlair(author_flair_text),
     author_flair_text |-> author_flair_text]

\* SheetPost(...): keyword arguments not given take the defaults of the
\* struct (num_comments = 0, score = 0, sheet_dl_date = None, sheet_raw = None)
SheetPost(id, title, created, shortlink, num_comments, score, author, sheet_id, sheet_url, sheet_dl_date, sheet_raw) ==
    [id |-> id, title |-> title, created |-> created, shortlink |-> shortlink,
     num_comments |-> num_comments, score |-> score, author |-> author,
     sheet_id |-> sheet_id, sheet_url |-> sheet_url,
     sheet_dl_date |-> sheet_dl_date, sheet_raw |-> sheet_raw]

\* -------------------------------------------- sheets.py: DFhandler download
\* The messages of the errors the services raise, as the set of the phrases
\* gen_df_gspread looks for that the message contains
QuotaMsg == "Quota exceeded"

UnsupportedMsg == "This operation is not supported"

Errors == SUBSET {QuotaMsg, UnsupportedMsg}

\* what one call of a service does: it returns, or raises an error
Outcomes == [ok : {TRUE}, msg : {{}}] \cup [ok : {FALSE}, msg : Errors]

\* mutant: one attempt too many
max_retries_one_more == 3 + 1

max_retries == 3

QuotaSleep == 65

ErrorSleep == 5

\* mutant: the quota branch is gone
ErrKind_without_quota(msg) ==
    IF "This operation is not supported" \in msg THEN "unsupported" ELSE "other"

\* mutant: the unsupported branch is gone
ErrKind_without_unsupported(msg) ==
    IF "Quota exceeded" \in msg THEN "quota" ELSE "other"

\* the branch of the except clause an error takes
ErrKind(msg) ==
    IF QuotaMsg \in msg THEN "quota"
    ELSE IF UnsupportedMsg \in msg THEN "unsupported"
    ELSE "other"

\* the events a download leaves behind: calls of the two services and sleeps
Call(op, out) == [op |-> op, ok |-> out.ok, msg |-> out.msg, t |-> 0]

Sleep(t) == [op |-> "sleep", ok |-> TRUE, msg |-> {}, t |-> t]

\* pd.read_csv(dl_url) / pd.DataFrame(worksheet.get_all_values()): the grid
\* of the document
DataFrame(sheet_id) == <<"DataFrame">> \o sheet_id

IsDataFrame(df) == df # None

\* DFhandler.__init__ up to the call of gen_df
DFhandlerInit(sheet_id) ==
    [sheet_id |-> sheet_id, df |-> None, retries |-> 0, pc |-> "gen_df",
     trace |-> <<>>]

\* mutant: the fallback is not called after a failed export
gen_df_without_fallback(h, out) ==
    [h EXCEPT !.df = IF out.ok THEN DataFrame(h.sheet_id) ELSE None,
              !.trace = Append(@, Call("read_csv", out)),
              !.pc = "done"]

\* DFhandler.gen_df, given what pd.read_csv does
gen_df(h, out) ==
    LET df == IF out.ok THEN DataFrame(h.sheet_id) ELSE None
    IN [h EXCEPT !.df = df,
                 !.trace = Append(@, Call("read_csv", out)),
                 !.pc = IF df = None THEN "gen_df_gspread" ELSE "done"]

\* one pass of the while loop of DFhandler.gen_df_gspread, given what
\* gc.open_by_key / get_worksheet / get_all_values do, and the test of the
\* loop condition that follows it
gen_df_gspread_iter(h, out) ==
    LET called == Append(h.trace, Call("open_by_key", out))
    IN IF out.ok
       THEN [h EXCEPT !.df = DataFrame(h.sheet_id),
                      !.trace = called, !.pc = "done"]
       ELSE IF ErrKind(out.msg) = "quota"
       THEN [h EXCEPT !.retries = @ + 1,
                      !.trace = Append(called, Sleep(QuotaSleep)),
                      !.pc = IF h.retries + 1 < max_retries
                             THEN "gen_df_gspread" ELSE "done"]
       ELSE IF ErrKind(out.msg) = "unsupported"
       THEN [h EXCEPT !.df = None, !.trace = called, !.pc = "done"]
       ELSE IF h.retries + 1 < max_retries
       THEN [h EXCEPT !.retries = @ + 1,
                      !.trace = Append(called, Sleep(ErrorSleep))]
       ELSE [h EXCEPT !.retries = @ + 1, !.df = None, !.trace = called,
                      !.pc = "done"]

\* the DFhandler object a caller holds: its attributes
Handler(h) == [sheet_id |-> h.sheet_id, df |-> h.df]

\* Python's None where a DFhandler is expected
NoHandler == [sheet_id |-> None, df |-> None]

\* mutant: the handler is returned whatever it holds
download_sheet_unguarded(h) == Handler(h)

\* download_sheet, given the handler DFhandler(sheet_id) built: the handler
\* when it holds a DataFrame, else None
download_sheet(h) == IF IsDataFrame(h.df) THEN Handler(h) ELSE NoHandler

\* DFhandler(sheet_id) run to its end: outs[1] is what read_csv does, the
\* rest what the successive open_by_key calls do
RECURSIVE RunDFhandler(_, _)
RunDFhandler(h, outs) ==
    IF h.pc = "done" THEN h
    ELSE IF h.pc = "gen_df" THEN RunDFhandler(gen_df(h, Head(outs)), Tail(outs))
    ELSE RunDFhandler(gen_df_gspread_iter(h, Head(outs)), Tail(outs))

\* --------------------------------------------------------------- cache.py
\* msgspec.msgpack.encode(value), as stored by RedisCache.set and hset
encode(value) == [enc |-> "msgpack", val |-> value]

\* ------------------------------------------------- the forum (reddit.py)
\* The submissions sr.search can return.  p3's account is deleted (author is
\* None); p1 and p2 share document ID1, p3 and p6 share ID2; p4 links no
\* document; p5 links a document that is no spreadsheet.
PostIds == {"p1", "p2", "p3", "p4", "p5", "p6"}

SheetUrl(path) == BASE_URL \o <<"spreadsheets", "/">> \o path

Submission(id, title, selftext, url, created_utc, author, flair, comments) ==
    [id |-> id, title |-> title, selftext |-> selftext, url |-> url,
     created_utc |-> created_utc, shortlink |-> <<"redd.it", "/", id>>,
     num_comments |-> Len(comments), score |-> created_utc + 1,
     author |-> author, author_flair_text |-> flair, comments |-> comments]

Submissions ==
    [p \in PostIds |->
        CASE p = "p1" ->
               Submission(p, <<"see">>,
                   <<"see", " ", "(">> \o SheetUrl(<<"d", "/", "ID1", "/", "edit">>)
                       \o <<")", ".">>,
                   <<"reddit">>, 3, <<"ann">>, <<"5", "trades">>, <<>>)
          [] p = "p2" ->
               Submission(p, <<"see">>, <<>>,
                   SheetUrl(<<"d", "/", "e", "/", "ID1", "/", "pubhtml">>),
                   2, <<"bob">>, None, <<>>)
          [] p = "p3" ->
               Submission(p, <<"see", " ">> \o SheetUrl(<<"d", "/", "ID2">>),
                   <<"see">>, <<"reddit">>, 1, None, None, <<>>)
          [] p = "p4" ->
               Submission(p, <<"see">>, <<"see">>, <<"reddit">>, 4, <<"bob">>,
                   <<"trades", ":", "12">>, << <<"see">> >>)
          [] p = "p5" ->
               Submission(p, <<"see">>,
                   BASE_URL \o <<"document", "/", "d", "/", "ID2", "/", "edit">>,
                   <<"reddit">>, 3, <<"ann">>, <<"5", "trades">>, <<>>)
          [] p = "p6" ->
               Submission(p, <<"see">>, <<"see">>, <<"reddit">>, 5, <<"cy">>,
                   <<>>,
                   << <<"see">>,
                      <<"[">> \o SheetUrl(<<"u", "/", "0", "/", "d", "/", "ID2",
                                           "/", "htmlview">>) \o <<"]">> >>)]

\* the lists sr.search() can return
RECURSIVE SeqsUpTo(_, _)
SeqsUpTo(S, n) ==
    IF n = 0 THEN {<<>>}
    ELSE LET shorter == SeqsUpTo(S, n - 1)
         IN shorter \cup {Append(s, x) : s \in {t \in shorter : Len(t) = n - 1}, x \in S}

SearchResults == SeqsUpTo(PostIds, MaxSearch)

\* datetime.fromtimestamp(post.created_utc): instants are integers
fromtimestamp(created_utc) == created_utc

\* ------------------------------------------------- sheets.py: the pipeline
\* the SheetPost parse_submissions builds for a post it has not seen, once
\* post.author.name has been read
SubmissionOf(post, sheet_url) ==
    IF Truthy(sheet_url)
    THEN SheetPost(post.id, post.title, fromtimestamp(post.created_utc),
                   post.shortlink, post.num_comments, post.score,
                   Author(post.author, post.author_flair_text),
                   gen_doc_id(sheet_url), sheet_url, NoInstant, None)
    ELSE SheetPost(post.id, post.title, fromtimestamp(post.created_utc),
                   post.shortlink, post.num_comments, post.score,
                   Author(post.author, post.author_flair_text),
                   None, None, NoInstant, None)

ParsedPost(post) == SubmissionOf(post, find_sheet_url(post))

\* posts.sort(key=lambda x: x.created, reverse=True): stable, so posts of
\* equal creation time keep their order
\* mutant: a post goes before the posts of equal creation time
RECURSIVE InsertByCreated_before_equal(_, _)
InsertByCreated_before_equal(sorted, x) ==
    IF sorted = <<>> THEN <<x>>
    ELSE IF Head(sorted).created > x.created
    THEN <<Head(sorted)>> \o InsertByCreated_before_equal(Tail(sorted), x)
    ELSE <<x>> \o sorted

RECURSIVE InsertByCreated(_, _)
InsertByCreated(sorted, x) ==
    IF sorted = <<>> THEN <<x>>
    ELSE IF Head(sorted).created >= x.created
    THEN <<Head(sorted)>> \o InsertByCreated(Tail(sorted), x)
    ELSE <<x>> \o sorted

RECURSIVE SortCreatedDesc(_)
SortCreatedDesc(posts) ==
    IF posts = <<>> THEN <<>>
    ELSE InsertByCreated(SortCreatedDesc(Take(posts, Len(posts) - 1)),
                         posts[Len(posts)])

RECURSIVE UniqueSheetsFrom(_, _)
UniqueSheetsFrom(sheet_posts, seen_sheet_ids) ==
    IF sheet_posts = <<>> THEN <<>>
    ELSE LET post == Head(sheet_posts)
         IN IF post.sheet_id # None /\ post.sheet_id \notin seen_sheet_ids
            THEN <<post>> \o UniqueSheetsFrom(Tail(sheet_posts),
                                              seen_sheet_ids \cup {post.sheet_id})
            ELSE UniqueSheetsFrom(Tail(sheet_posts), seen_sheet_ids)

\* mutant: seen_sheet_ids is not consulted
unique_sheets_without_seen(sheet_posts) ==
    SelectSeq(sheet_posts, LAMBDA post : post.sheet_id # None)

unique_sheets(sheet_posts) == UniqueSheetsFrom(sheet_posts, {})

RECURSIVE DedupeFrom(_, _)
DedupeFrom(submissions, seen_ids) ==
    IF submissions = <<>> THEN <<>>
    ELSE LET post == Head(submissions)
         IN IF post.id \notin seen_ids
            THEN <<post>> \o DedupeFrom(Tail(submissions), seen_ids \cup {post.id})
            ELSE DedupeFrom(Tail(submissions), seen_ids)

dedupe_submissions(submissions) == DedupeFrom(submissions, {})

\* mutant: the download date is not attached
UpdatedSheet_undated(sheet, dl_sheet, now) ==
    SheetPost(sheet.id, sheet.title, sheet.created, sheet.shortlink, 0, 0,
              sheet.author, sheet.sheet_id, sheet.sheet_url, NoInstant,
              <<"json">> \o dl_sheet.df)

\* the SheetPost add_sheet_data builds from a parsed post and its download;
\* num_comments and score are not passed on
UpdatedSheet(sheet, dl_sheet, now) ==
    SheetPost(sheet.id, sheet.title, sheet.created, sheet.shortlink, 0, 0,
              sheet.author, sheet.sheet_id, sheet.sheet_url, now,
              <<"json">> \o dl_sheet.df)

\* cache_sheets: hset every item under sheet:{item.sheet_id}, in order
RECURSIVE CacheSheetsInto(_, _)
CacheSheetsInto(hash, its) ==
    IF its = <<>> THEN hash
    ELSE LET item == Head(its)
         IN CacheSheetsInto(
                [f \in DOMAIN hash \cup {item.sheet_id} |->
                    IF f = item.sheet_id THEN encode(item) ELSE hash[f]],
                Tail(its))

\* ------------------------------------------------------------------ state
VARIABLES
    cache_kv,       \* redis keys post:{id} -> encoded SheetPost
    cache_sheets,   \* redis hash 'sheets': field sheet:{id} -> encoded SheetPost
    pc,             \* where sheet_query is
    run,            \* sheet_query calls so far; the clock reads it
    ss,             \* sheet_query: the search result
    i,              \* parse_submissions: posts of ss processed
    sheet_posts,    \* parse_submissions' list, then sheet_query's posts
    u_posts,        \* sheet_query: dedupe_submissions(posts)
    u_sheets,       \* sheet_query: unique_sheets(posts)
    j,              \* add_sheet_data: posts of u_sheets processed
    items,          \* add_sheet_data's list, then sheet_query's dl_sheets
    set_log,        \* history: the keys of the cache.set calls of this run
    dl_log,         \* history: the ids download_sheet was called with, this run
    sheets_at_start,\* history: the fields of 'sheets' when the run began
    failed,         \* history: the downloads that failed in an earlier run
    dl_ok,          \* history: the ids whose DFhandler ended with a DataFrame
    dfh,            \* download_sheet: the DFhandler under construction
    dl_pc,          \* where download_sheet is
    dl_result,      \* what download_sheet returned
    fn,             \* a function called on its own: where it is
    arg,            \* a function called on its own: its argument
    ret,            \* a function called on its own: its value so far
    log,            \* a function called on its own: the calls it has made
    runs            \* sheet_query calls that overlap: the locals of each

pvars == <<cache_kv, cache_sheets, pc, run, ss, i, sheet_posts, u_posts,
           u_sheets, j, items, set_log, dl_log, sheets_at_start, failed,
           dl_ok>>

\* sheet_query's locals and the history kept about its runs
lvars == <<pc, run, ss, i, sheet_posts, u_posts, u_sheets, j, items, set_log,
           dl_log, sheets_at_start, failed, dl_ok>>

dvars == <<dfh, dl_pc, dl_result>>

fvars == <<fn, arg, ret, log>>

vars == <<pvars, dvars, fvars, runs>>

Returns == [ok |-> TRUE, msg |-> {}]

Raises(msg) == [ok |-> FALSE, msg |-> msg]

\* the service calls a trace holds
Calls(trace) == {k \in 1..Len(trace) : trace[k].op # "sleep"}

\* what the services do during one DFhandler(sheet_id) of a pipeline run:
\* read_csv, then up to max_retries calls of open_by_key (what a call that
\* is never made would have done is left out: it is fixed to Returns)
ServiceRuns ==
    {outs \in [1..(max_retries + 1) ->
                 {Returns, Raises({QuotaMsg}), Raises({UnsupportedMsg})}] :
        \A k \in 1..(max_retries + 1) :
            k > Cardinality(Calls(RunDFhandler(DFhandlerInit(<<>>), outs).trace))
                => outs[k] = Returns}

DocIds == {<<"ID1">>, <<"ID2">>}

\* mutant: every lookup misses
exists_never(id) == FALSE

\* RedisCache.exists(f"post:{id}")
exists(id) == id \in DOMAIN cache_kv

\* check_cache(sheet_id): RedisCache.hexists("sheets", f"sheet:{sheet_id}")
check_cache(sheet_id) == sheet_id \in DOMAIN cache_sheets

\* ---------------------------------------------------- sheet_query, by steps
\* nothing is cached and no run has begun
PipelineInit ==
    /\ cache_kv = <<>>
    /\ cache_sheets = <<>>
    /\ pc = "idle"
    /\ run = 0
    /\ ss = <<>>
    /\ i = 0
    /\ sheet_posts = <<>>
    /\ u_posts = <<>>
    /\ u_sheets = <<>>
    /\ j = 0
    /\ items = <<>>
    /\ set_log = <<>>
    /\ dl_log = <<>>
    /\ sheets_at_start = {}
    /\ failed = {}
    /\ dl_ok = {}
    /\ dfh = [DFhandlerInit(None) EXCEPT !.pc = "None"]
    /\ dl_pc = "idle"
    /\ dl_result = NoHandler
    /\ runs = <<>>

Init ==
    /\ PipelineInit
    /\ fn = "idle"
    /\ arg = <<>>
    /\ ret = <<>>
    /\ log = <<>>

\* sheet_query is called (one writer: the run before has ended) and
\* sr.search returns
SheetQuery(result) ==
    /\ pc \in {"idle", "done", "raised"}
    /\ run < MaxRuns
    /\ run' = run + 1
    /\ ss' = result
    /\ pc' = "parse_submissions"
    /\ i' = 0
    /\ sheet_posts' = <<>>
    /\ u_posts' = <<>>
    /\ u_sheets' = <<>>
    /\ j' = 0
    /\ items' = <<>>
    /\ set_log' = <<>>
    /\ dl_log' = <<>>
    /\ sheets_at_start' = DOMAIN cache_sheets
    /\ UNCHANGED <<cache_kv, cache_sheets, failed, dl_ok, dvars, fvars, runs>>

\* parse_submissions, one pass of the loop: cache hit
ParseHit ==
    /\ pc = "parse_submissions"
    /\ i < Len(ss)
    /\ exists(ss[i + 1])
    /\ i' = i + 1
    /\ UNCHANGED <<cache_kv, cache_sheets, pc, run, ss, sheet_posts, u_posts,
                   u_sheets, j, items, set_log, dl_log, sheets_at_start,
                   failed, dl_ok, dvars, fvars, runs>>

\* parse_submissions, one pass of the loop: cache miss, the author exists
ParseMiss ==
    /\ pc = "parse_submissions"
    /\ i < Len(ss)
    /\ ~exists(ss[i + 1])
    /\ Submissions[ss[i + 1]].author # None
    /\ \E submission \in {ParsedPost(Submissions[ss[i + 1]])} :
          /\ cache_kv' = [k \in DOMAIN cache_kv \cup {submission.id} |->
                            IF k = submission.id THEN encode(submission)
                            ELSE cache_kv[k]]
          /\ set_log' = Append(set_log, submission.id)
          /\ sheet_posts' = IF submission.sheet_url # None
                            THEN Append(sheet_posts, submission)
                            ELSE sheet_posts
    /\ i' = i + 1
    /\ UNCHANGED <<cache_sheets, pc, run, ss, u_posts, u_sheets, j, items,
                   dl_log, sheets_at_start, failed, dl_ok, dvars, fvars,
                   runs>>

\* parse_submissions, one pass of the loop: cache miss, post.author is None,
\* so post.author.name raises AttributeError, which nothing catches
ParseRaise ==
    /\ pc = "parse_submissions"
    /\ i < Len(ss)
    /\ ~exists(ss[i + 1])
    /\ Submissions[ss[i + 1]].author = None
    /\ pc' = "raised"
    /\ UNCHANGED <<cache_kv, cache_sheets, run, ss, i, sheet_posts, u_posts,
                   u_sheets, j, items, set_log, dl_log, sheets_at_start,
                   failed, dl_ok, dvars, fvars, runs>>

\* parse_submissions returns; sheet_query sorts and removes duplicates
ParseReturn ==
    /\ pc = "parse_submissions"
    /\ i = Len(ss)
    /\ sheet_posts' = SortCreatedDesc(sheet_posts)
    /\ u_posts' = dedupe_submissions(sheet_posts')
    /\ u_sheets' = unique_sheets(sheet_posts')
    /\ pc' = "add_sheet_data"
    /\ UNCHANGED <<cache_kv, cache_sheets, run, ss, i, j, items, set_log,
                   dl_log, sheets_at_start, failed, dl_ok, dvars, fvars,
                   runs>>

\* add_sheet_data, one pass of the loop: check_cache finds the sheet
AddSheetHit ==
    /\ pc = "add_sheet_data"
    /\ j < Len(u_sheets)
    /\ check_cache(u_sheets[j + 1].sheet_id)
    /\ j' = j + 1
    /\ UNCHANGED <<cache_kv, cache_sheets, pc, run, ss, i, sheet_posts,
                   u_posts, u_sheets, items, set_log, dl_log, sheets_at_start,
                   failed, dl_ok, dvars, fvars, runs>>

\* add_sheet_data, one pass of the loop: check_cache misses, download_sheet
\* runs to its end
AddSheetDownload(outs) ==
    /\ pc = "add_sheet_data"
    /\ j < Len(u_sheets)
    /\ ~check_cache(u_sheets[j + 1].sheet_id)
    /\ \E sheet \in {u_sheets[j + 1]},
          dl_sheet \in {download_sheet(RunDFhandler(
                           DFhandlerInit(u_sheets[j + 1].sheet_id), outs))} :
          /\ items' = IF dl_sheet # NoHandler
                      THEN Append(items, UpdatedSheet(sheet, dl_sheet, run))
                      ELSE items
          /\ dl_log' = Append(dl_log, sheet.sheet_id)
    /\ dl_ok' = IF IsDataFrame(RunDFhandler(
                       DFhandlerInit(u_sheets[j + 1].sheet_id), outs).df)
                THEN dl_ok \cup {u_sheets[j + 1].sheet_id}
                ELSE dl_ok
    /\ j' = j + 1
    /\ UNCHANGED <<cache_kv, cache_sheets, pc, run, ss, i, sheet_posts,
                   u_posts, u_sheets, set_log, sheets_at_start, failed, dvars,
                   fvars, runs>>

\* add_sheet_data returns; cache_sheets writes the items; sheet_query
\* returns, and its locals are gone
CacheSheets ==
    /\ pc = "add_sheet_data"
    /\ j = Len(u_sheets)
    /\ cache_sheets' = CacheSheetsInto(cache_sheets, items)
    /\ failed' = failed \cup
            {[post |-> u_sheets[k].id, doc |-> u_sheets[k].sheet_id] :
                k \in {m \in 1..Len(u_sheets) :
                          /\ u_sheets[m].sheet_id \in Range(dl_log)
                          /\ \A n \in 1..Len(items) :
                                items[n].sheet_id # u_sheets[m].sheet_id}}
    /\ pc' = "done"
    /\ ss' = <<>>
    /\ i' = 0
    /\ sheet_posts' = <<>>
    /\ u_posts' = <<>>
    /\ u_sheets' = <<>>
    /\ j' = 0
    /\ items' = <<>>
    /\ set_log' = <<>>
    /\ dl_log' = <<>>
    /\ sheets_at_start' = {}
    /\ UNCHANGED <<cache_kv, run, dl_ok, dvars, fvars, runs>>

Next ==
    \/ \E result \in SearchResults : SheetQuery(result)
    \/ ParseHit
    \/ ParseMiss
    \/ ParseRaise
    \/ ParseReturn
    \/ AddSheetHit
    \/ \E outs \in ServiceRuns : AddSheetDownload(outs)
    \/ CacheSheets

Spec == Init /\ [][Next]_vars

\* ------------------------------------------------- download_sheet, by steps
\* download_sheet(sheet_id) is called and builds the handler
DLCall(sheet_id) ==
    /\ dl_pc = "idle"
    /\ dfh' = DFhandlerInit(sheet_id)
    /\ dl_pc' = "DFhandler"
    /\ UNCHANGED <<dl_result, pvars, fvars, runs>>

\* gen_df: pd.read_csv returns or raises
DLGenDf(out) ==
    /\ dl_pc = "DFhandler"
    /\ dfh.pc = "gen_df"
    /\ dfh' = gen_df(dfh, out)
    /\ UNCHANGED <<dl_pc, dl_result, pvars, fvars, runs>>

\* gen_df_gspread: one pass of the loop
DLGspread(out) ==
    /\ dl_pc = "DFhandler"
    /\ dfh.pc = "gen_df_gspread"
    /\ dfh' = gen_df_gspread_iter(dfh, out)
    /\ UNCHANGED <<dl_pc, dl_result, pvars, fvars, runs>>

\* the constructor is through; download_sheet returns
DLReturn ==
    /\ dl_pc = "DFhandler"
    /\ dfh.pc = "done"
    /\ dl_result' = download_sheet(dfh)
    /\ dl_pc' = "returned"
    /\ UNCHANGED <<dfh, pvars, fvars, runs>>

DLNext ==
    \/ \E sheet_id \in DocIds : DLCall(sheet_id)
    \/ \E out \in Outcomes : DLGenDf(out)
    \/ \E out \in Outcomes : DLGspread(out)
    \/ DLReturn

SpecDL == Init /\ [][DLNext]_vars

\* the thread runs on: a download that can take a step takes it
SpecDLFair == SpecDL /\ WF_vars(DLNext)

\* ------------------------------------------------ properties: the download
\* the calls of open_by_key a trace holds
OpenCalls(trace) == {k \in 1..Len(trace) : trace[k].op = "open_by_key"}

\* the trace ends with a call of open_by_key that raised
LastOpenRaised(trace) ==
    /\ OpenCalls(trace) # {}
    /\ \A k \in OpenCalls(trace) :
          (\A m \in OpenCalls(trace) : m <= k) => ~trace[k].ok

\* C6: whatever errors the spreadsheet API raises, gen_df_gspread calls
\* open_by_key at most 3 times and ends; it ends with a DataFrame only if a
\* call returned, and with df = None otherwise.
C6_FallbackBounded ==
    /\ [](/\ Cardinality(OpenCalls(dfh.trace)) <= 3
          /\ dfh.pc = "done" =>
                /\ IsDataFrame(dfh.df) <=>
                      \E k \in Calls(dfh.trace) : dfh.trace[k].ok
                /\ ~IsDataFrame(dfh.df) => dfh.df = None)
    /\ (dfh.pc = "gen_df_gspread") ~> (dfh.pc = "done")

\* C6 witness: three calls of open_by_key, all raising, and the loop is over
C6_Witness ==
    /\ dfh.pc = "done"
    /\ Cardinality(OpenCalls(dfh.trace)) = 3
    /\ \A k \in OpenCalls(dfh.trace) : ~dfh.trace[k].ok
    /\ dfh.df = None

\* C7: every call of open_by_key after the first comes right after a sleep
\* that comes right after a call that raised: of 65 when the message holds
\* "Quota exceeded", of 5 otherwise; and when every call raises a quota error
\* there are 3 calls, each followed by a sleep of 65, and no download.
C7_WaitBeforeRetry ==
    /\ \A k \in OpenCalls(dfh.trace) :
          (\E m \in OpenCalls(dfh.trace) : m < k) =>
             /\ k >= 3
             /\ dfh.trace[k - 1].op = "sleep"
             /\ dfh.trace[k - 2].op = "open_by_key"
             /\ ~dfh.trace[k - 2].ok
             /\ dfh.trace[k - 1].t =
                   IF "Quota exceeded" \in dfh.trace[k - 2].msg THEN 65 ELSE 5
    /\ ( /\ dfh.pc = "done"
         /\ OpenCalls(dfh.trace) # {}
         /\ \A k \in OpenCalls(dfh.trace) :
               ~dfh.trace[k].ok /\ "Quota exceeded" \in dfh.trace[k].msg )
       => /\ Cardinality(OpenCalls(dfh.trace)) = 3
          /\ \A k \in OpenCalls(dfh.trace) :
                /\ k < Len(dfh.trace)
                /\ dfh.trace[k + 1].op = "sleep"
                /\ dfh.trace[k + 1].t = 65
          /\ dfh.df = None
          /\ dl_pc = "returned" => dl_result = NoHandler

\* C7 witness: a quota error, a wait of 65, a retry that raises another error,
\* a wait of 5 and a third call
C7_Witness ==
    /\ Len(dfh.trace) >= 6
    /\ dfh.trace[2].op = "open_by_key" /\ "Quota exceeded" \in dfh.trace[2].msg
    /\ dfh.trace[3].op = "sleep" /\ dfh.trace[3].t = 65
    /\ dfh.trace[4].op = "open_by_key" /\ ~dfh.trace[4].ok
    /\ dfh.trace[5].op = "sleep" /\ dfh.trace[5].t = 5
    /\ dfh.trace[6].op = "open_by_key"

\* an error of the 'operation not supported' kind (and not a quota error)
Unsupported(e) ==
    /\ ~e.ok
    /\ "This operation is not supported" \in e.msg
    /\ "Quota exceeded" \notin e.msg

\* C8: a call of open_by_key that raises 'operation not supported' is the
\* last thing the loop does: no sleep and no call follow it, the loop is
\* over, the counter stands where the earlier failures left it, and there is
\* no DataFrame; this after any number of earlier attempts.
C8_UnsupportedStops ==
    \A k \in OpenCalls(dfh.trace) :
        Unsupported(dfh.trace[k]) =>
            /\ k = Len(dfh.trace)
            /\ dfh.pc = "done"
            /\ dfh.retries = Cardinality({m \in OpenCalls(dfh.trace) : m < k})
            /\ dfh.df = None
            /\ dl_pc = "returned" => dl_result = NoHandler

\* C8 witness: 'operation not supported' at the third attempt
C8_Witness ==
    /\ dl_pc = "returned"
    /\ Cardinality(OpenCalls(dfh.trace)) = 3
    /\ Unsupported(dfh.trace[Len(dfh.trace)])
    /\ dfh.retries = 2

\* the fallback used up its attempts
Exhausted == dfh.pc = "done" /\ dfh.retries = 3

\* C9 as claimed: after 3 failed attempts download_sheet returns an outcome
\* that carries the error of the last attempt.
C9_LastErrorReturned ==
    (dl_pc = "returned" /\ Exhausted) =>
        /\ dl_result # NoHandler
        /\ "error" \in DOMAIN dl_result
        /\ \E k \in OpenCalls(dfh.trace) :
              /\ \A m \in OpenCalls(dfh.trace) : m <= k
              /\ dl_result.error = dfh.trace[k].msg

\* C9 as amended: after 3 failed attempts download_sheet returns None, and so
\* it does after 'operation not supported': what it returns carries no error
\* and does not tell the two apart.
C9_FailureReturnsNone ==
    (dl_pc = "returned" /\ LastOpenRaised(dfh.trace)) => dl_result = NoHandler

\* C9 witness: download_sheet has returned after 3 failed attempts
C9_Witness ==
    /\ dl_pc = "returned"
    /\ Exhausted
    /\ LastOpenRaised(dfh.trace)
    /\ Cardinality(OpenCalls(dfh.trace)) = 3

\* C10: the first call is read_csv and there is no other; open_by_key is
\* called if and only if read_csv raised; when read_csv raised and a call of
\* open_by_key returned, download_sheet returns the handler with its
\* DataFrame, and the handler holds nothing of the export's error.
C10_ExportFirst ==
    /\ dfh.trace # <<>> => dfh.trace[1].op = "read_csv"
    /\ \A k \in 2..Len(dfh.trace) : dfh.trace[k].op # "read_csv"
    /\ OpenCalls(dfh.trace) # {} => ~dfh.trace[1].ok
    /\ (dfh.pc = "done" /\ ~dfh.trace[1].ok) => OpenCalls(dfh.trace) # {}
    /\ (dfh.pc = "done" /\ dfh.trace[1].ok) =>
          IsDataFrame(dfh.df) /\ Len(dfh.trace) = 1
    /\ ( /\ dl_pc = "returned"
         /\ \E k \in OpenCalls(dfh.trace) : dfh.trace[k].ok )
       => dl_result = [sheet_id |-> dfh.sheet_id, df |-> DataFrame(dfh.sheet_id)]

\* C10 witness: the export raised, the fallback returned a grid at its second
\* attempt, download_sheet returned it
C10_Witness ==
    /\ dl_pc = "returned"
    /\ ~dfh.trace[1].ok
    /\ Cardinality(OpenCalls(dfh.trace)) = 2
    /\ dfh.trace[Len(dfh.trace)].ok
    /\ dl_result # NoHandler

\* ------------------------------------------------ properties: the pipeline
\* add_sheet_data has gone through u_sheets: the run is about to return
RunThrough == pc = "add_sheet_data" /\ j = Len(u_sheets)

\* C1: within a run download_sheet is called at most once with a document
\* id, and never with an id whose field was in hash 'sheets' when the run
\* began.
C1_DownloadOncePerRun ==
    /\ \A a, b \in 1..Len(dl_log) : dl_log[a] = dl_log[b] => a = b
    /\ \A a \in 1..Len(dl_log) : dl_log[a] \notin sheets_at_start

\* C1 witness: a second run has found two documents, downloaded the one and
\* skipped the other, which an earlier run had cached
C1_Witness ==
    /\ run = 2
    /\ RunThrough
    /\ Len(u_sheets) = 2
    /\ dl_log = <<u_sheets[1].sheet_id>>
    /\ u_sheets[2].sheet_id \in sheets_at_start

\* C2: a key post:{id} that is in the cache stays there with its value, and
\* no cache.set is made for it.
C2_PostWrittenOnce ==
    [][/\ \A k \in DOMAIN cache_kv :
             k \in DOMAIN cache_kv' /\ cache_kv'[k] = cache_kv[k]
       /\ Len(set_log') = Len(set_log) + 1 =>
             set_log'[Len(set_log')] \notin DOMAIN cache_kv]_vars

\* C2 witness: a second run has just skipped a post an earlier run cached
C2_Witness ==
    /\ run = 2
    /\ pc = "parse_submissions"
    /\ i >= 1
    /\ ss[i] \in DOMAIN cache_kv
    /\ ss[i] \notin Range(set_log)

\* C3 as claimed: when the download of a post's document failed in an
\* earlier run and the document is still not in hash 'sheets', a run whose
\* search returns that post calls download_sheet for the document.
C3_FailedDownloadRetried ==
    RunThrough =>
        \A f \in failed :
            (f.post \in Range(ss) /\ f.doc \notin sheets_at_start)
                => f.doc \in Range(dl_log)

\* parse_submissions is over: it returned, or it raised
ParseOver == pc \in {"add_sheet_data", "raised"}

\* C4 as claimed: once parse_submissions is over, every post of the search
\* result whose author exists is under post:{id}.
C4_NewPostsCached ==
    ParseOver =>
        \A k \in 1..Len(ss) :
            Submissions[ss[k]].author # None => ss[k] \in DOMAIN cache_kv

\* C5 as claimed: no post makes the run raise, and once parse_submissions
\* has returned every post of the search result, those without an author
\* too, is under post:{id}.
C5_AuthorAbsentIsolated ==
    /\ pc # "raised"
    /\ pc = "add_sheet_data" => \A k \in 1..Len(ss) : ss[k] \in DOMAIN cache_kv

\* the SheetPosts of the cache: under post:{id}, and in hash 'sheets'
PostRecords == {cache_kv[k].val : k \in DOMAIN cache_kv}

SheetRecords == {cache_sheets[d].val : d \in DOMAIN cache_sheets}

\* every SheetPost the pipeline has built and still holds, or has cached
PipelinePosts ==
    PostRecords \cup SheetRecords \cup Range(sheet_posts) \cup Range(u_posts)
        \cup Range(u_sheets) \cup Range(items)

\* C11 as claimed: every SheetPost the pipeline has built or cached has
\* sheet_id set if and only if it has sheet_url set.
C11_IdIffUrl ==
    \A sp \in PipelinePosts : (sp.sheet_id # None) <=> (sp.sheet_url # None)

\* C12: a SheetPost has sheet_raw only if the DFhandler of its document ended
\* with a DataFrame, and then it is that grid and sheet_dl_date is set; the
\* records under post:{id} have no sheet_raw; the value of field sheet:{d}
\* of hash 'sheets' has sheet_id = d, sheet_raw and sheet_dl_date.
C12_RawOnlyAfterDownload ==
    /\ \A sp \in PipelinePosts :
          sp.sheet_raw # None =>
             /\ sp.sheet_id \in dl_ok
             /\ sp.sheet_raw = <<"json">> \o DataFrame(sp.sheet_id)
             /\ sp.sheet_dl_date # NoInstant
    /\ \A sp \in PostRecords : sp.sheet_raw = None /\ sp.sheet_dl_date = NoInstant
    /\ \A d \in DOMAIN cache_sheets :
          /\ cache_sheets[d].val.sheet_id = d
          /\ cache_sheets[d].val.sheet_raw # None
          /\ cache_sheets[d].val.sheet_dl_date # NoInstant

\* C12 witness: a run has cached one document it downloaded, while the
\* download of another failed and left nothing in hash 'sheets'
C12_Witness ==
    /\ pc = "done"
    /\ dl_ok # {}
    /\ DOMAIN cache_sheets = dl_ok
    /\ \E f \in failed : f.doc \notin DOMAIN cache_sheets

\* ------------------------------------- sheet_query: sort and unique_sheets
\* the lists parse_submissions can return: posts that link a document and
\* whose author exists, each once, created at any of the instants
ParsedPool ==
    {[ParsedPost(Submissions[p]) EXCEPT !.created = c] :
        p \in {"p1", "p2", "p5", "p6"}, c \in 1..MaxCreated}

ParsedLists ==
    {posts \in SeqsUpTo(ParsedPool, MaxPosts) :
        \A a, b \in 1..Len(posts) : posts[a].id = posts[b].id => a = b}

InitUnique ==
    /\ PipelineInit
    /\ fn = "parse_submissions"
    /\ arg \in ParsedLists
    /\ ret = <<>>
    /\ log = <<>>

\* posts.sort(key=lambda x: x.created, reverse=True)
PostsSort ==
    /\ fn = "parse_submissions"
    /\ ret' = SortCreatedDesc(arg)
    /\ fn' = "sort"
    /\ UNCHANGED <<arg, log, pvars, dvars, runs>>

\* u_sheets = unique_sheets(posts)
UniqueSheets ==
    /\ fn = "sort"
    /\ ret' = unique_sheets(ret)
    /\ fn' = "unique_sheets"
    /\ UNCHANGED <<arg, log, pvars, dvars, runs>>

UniqueNext == PostsSort \/ UniqueSheets

SpecUnique == InitUnique /\ [][UniqueNext]_vars

\* C13: the unique-documents list holds no post without a document id; for
\* every document id of the parsed posts it holds exactly one post; and that
\* post is, of the posts with its id, the one created last, and of those
\* created last the one that came first in the parsed list.
C13_FirstPostPerDocument ==
    fn = "unique_sheets" =>
        /\ \A k \in 1..Len(ret) : ret[k].sheet_id # None
        /\ \A d \in {arg[a].sheet_id : a \in 1..Len(arg)} \ {None} :
              Cardinality({k \in 1..Len(ret) : ret[k].sheet_id = d}) = 1
        /\ \A k \in 1..Len(ret) :
              \E a \in 1..Len(arg) :
                 /\ arg[a] = ret[k]
                 /\ \A b \in 1..Len(arg) :
                       arg[b].sheet_id = ret[k].sheet_id =>
                          \/ arg[b].created < arg[a].created
                          \/ arg[b].created = arg[a].created /\ a <= b

\* C13 witness: three parsed posts, two of one document created at the same
\* instant and one without a document id; the list holds the first of the two
C13_Witness ==
    /\ fn = "unique_sheets"
    /\ Len(arg) = 3
    /\ arg[1].sheet_id = None
    /\ arg[2].sheet_id = arg[3].sheet_id
    /\ arg[2].created = arg[3].created
    /\ ret = <<arg[2]>>

\* ------------------------------------------------ find_sheet_url, on its own
\* the posts find_sheet_url is called with: every place holds a link of its
\* own or none; a link post has an empty self-text (or none at all)
TitleTexts == {<<"see">>, <<"see", " ">> \o SheetUrl(<<"d", "/", "ID1">>)}

SelfTexts ==
    {None, <<>>, <<"see">>,
     <<"see", " ", "(">> \o SheetUrl(<<"d", "/", "ID2">>) \o <<")", ".">>}

LinkUrls == {<<"reddit">>, SheetUrl(<<"d", "/", "e", "/", "ID1", "/", "pubhtml">>)}

CommentBodies ==
    {<<"see">>,
     <<"[">> \o SheetUrl(<<"u", "/", "0", "/", "d", "/", "ID1">>) \o <<"]">>,
     SheetUrl(<<"u", "/", "0", "/", "d", "/", "ID2">>) \o <<" ", "see">>}

Posts ==
    {Submission("p", title, selftext, url, 1, <<"ann">>, None, comments) :
        title \in TitleTexts, selftext \in SelfTexts, url \in LinkUrls,
        comments \in SeqsUpTo(CommentBodies, MaxComments)}

InitFind ==
    /\ PipelineInit
    /\ fn = "find_sheet_url"
    /\ arg \in Posts
    /\ ret = <<>>
    /\ log = <<>>

FindSheetUrl ==
    /\ fn = "find_sheet_url"
    /\ ret' = find_sheet_url(arg)
    /\ fn' = "returned"
    /\ UNCHANGED <<arg, log, pvars, dvars, runs>>

FindNext == FindSheetUrl

SpecFind == InitFind /\ [][FindNext]_vars

\* the texts of a post in the order of the claim: the title, the self-text
\* or, when there is none, the link URL, then the comments as listed
Locations(post) ==
    <<post.title>>
        \o (IF Truthy(post.selftext) THEN <<post.selftext>> ELSE <<post.url>>)
        \o post.comments

\* the places that hold the base URL
Hits(post) ==
    {k \in 1..Len(Locations(post)) : Contains(Locations(post)[k], BASE_URL)}

\* C14: find_sheet_url returns None exactly when no place holds the base
\* URL; otherwise it returns the link of the first place that does: the link
\* URL itself, or the cleaned link of the text, which begins with the base
\* URL.
C14_FirstLocationWins ==
    fn = "returned" =>
        /\ Hits(arg) = {} <=> ret = None
        /\ \A k \in Hits(arg) :
              (\A h \in Hits(arg) : k <= h) =>
                 /\ MatchAt(ret, BASE_URL, 1)
                 /\ ret = IF k = 2 /\ ~Truthy(arg.selftext) THEN arg.url
                          ELSE clean_url(Locations(arg)[k])

\* C14 witness: no link in the title nor in the self-text, which is there, so
\* that the link URL, which holds a link, is passed over; the first comment
\* has no link, and the link of the second is returned
C14_Witness ==
    /\ fn = "returned"
    /\ ~Contains(arg.title, BASE_URL)
    /\ Truthy(arg.selftext) /\ ~Contains(arg.selftext, BASE_URL)
    /\ Contains(arg.url, BASE_URL)
    /\ Len(arg.comments) = 2
    /\ ~Contains(arg.comments[1], BASE_URL)
    /\ Contains(arg.comments[2], BASE_URL)
    /\ ret = clean_url(arg.comments[2])
    /\ ret # arg.url

\* ----------------------------------------------------- clean_url, on its own
\* the texts clean_url is called with: a link, after some words or at the
\* start, followed by closing brackets, periods, backslashes and closing
\* parentheses
Noise == SeqsUpTo({"]", ".", "\\", ")"}, MaxNoise)

NoisyTexts ==
    {before \o SheetUrl(<<"d", "/", "ID1">>) \o noise :
        before \in {<<>>, <<"see", " ">>}, noise \in Noise}

InitClean ==
    /\ PipelineInit
    /\ fn = "text"
    /\ arg \in NoisyTexts
    /\ ret = <<>>
    /\ log = <<>>

\* clean_url(text)
CleanUrl ==
    /\ fn = "text"
    /\ ret' = clean_url(arg)
    /\ fn' = "clean_url"
    /\ UNCHANGED <<arg, log, pvars, dvars, runs>>

\* clean_url of what clean_url returned
CleanUrlAgain ==
    /\ fn = "clean_url"
    /\ log' = <<ret>>
    /\ ret' = clean_url(ret)
    /\ fn' = "clean_url(clean_url)"
    /\ UNCHANGED <<arg, pvars, dvars, runs>>

CleanNext == CleanUrl \/ CleanUrlAgain

SpecClean == InitClean /\ [][CleanNext]_vars

\* C15 as claimed: clean_url of what clean_url returned is what clean_url
\* returned, for every text with a link followed by ']', '.', backslash and
\* ')' characters.
C15_CleanUrlIdempotent ==
    fn = "clean_url(clean_url)" => ret = log[1]

\* ---------------------------------------------------- gen_doc_id, on its own
\* the links gen_doc_id is called with: spreadsheet and document links of
\* the shapes of its docstring, an old key= link, and a link that continues
\* to a published one
UrlPaths ==
    {<<"d", "/">>, <<"d", "/", "e", "/">>, <<"u", "/", "0", "/", "d", "/">>,
     <<"ccc", "?", "key", "=">>}

UrlTails ==
    {<<>>, <<"/", "edit">>, <<"/", "pubhtml">>, <<"&", "usp">>, <<"#", "gid">>,
     <<"?", "continue", "=", "/", "spreadsheets", "/", "d", "/", "e", "/",
       "ID2">>}

SheetUrls ==
    {BASE_URL \o <<kind, "/">> \o path \o id \o tail :
        kind \in {"spreadsheets", "document"}, path \in UrlPaths,
        id \in DocIds, tail \in UrlTails}

InitGenDocId ==
    /\ PipelineInit
    /\ fn = "gen_doc_id"
    /\ arg \in SheetUrls
    /\ ret = None
    /\ log = <<>>

\* one pass of the loop over patterns: re.search, and return on a match
GenDocIdPattern ==
    /\ fn = "gen_doc_id"
    /\ Len(log) < Len(patterns)
    /\ log' = Append(log, patterns[Len(log) + 1])
    /\ \E match \in {SearchGroup(arg, patterns[Len(log) + 1])} :
          /\ ret' = match
          /\ fn' = IF match # None THEN "returned" ELSE fn
    /\ UNCHANGED <<arg, pvars, dvars, runs>>

\* no pattern matched: gutils.extract_id_from_url, whose NoValidUrlKeyFound
\* is caught and turned into None
GenDocIdExtract ==
    /\ fn = "gen_doc_id"
    /\ Len(log) = Len(patterns)
    /\ log' = Append(log, <<"extract_id_from_url">>)
    /\ ret' = extract_id_from_url(arg)
    /\ fn' = "returned"
    /\ UNCHANGED <<arg, pvars, dvars, runs>>

GenDocIdNext == GenDocIdPattern \/ GenDocIdExtract

SpecGenDocId == InitGenDocId /\ [][GenDocIdNext]_vars

\* the id behind the leftmost occurrence of a path, None without one
IdBehind(url, path) ==
    IF Contains(url, path) /\ Find(url, path) + Len(path) <= Len(url)
          /\ url[Find(url, path) + Len(path)] \in {"ID1", "ID2"}
    THEN <<url[Find(url, path) + Len(path)]>>
    ELSE None

\* C16: gen_doc_id returns the id behind '/spreadsheets/d/e/' when the link
\* has that, else the id behind '/spreadsheets/u/0/d/' when it has that, in
\* both cases without a call of the generic extractor; else it returns what
\* the generic extractor returns, and None when that fails, as for a
\* '/document/d/' link; it returns what the pipeline's gen_doc_id returns.
C16_RulesBeforeExtractor ==
    fn = "returned" =>
        /\ ret = gen_doc_id(arg)
        /\ IF IdBehind(arg, <<"/", "spreadsheets", "/", "d", "/", "e", "/">>) # None
           THEN /\ ret = IdBehind(arg, <<"/", "spreadsheets", "/", "d", "/", "e", "/">>)
                /\ <<"extract_id_from_url">> \notin Range(log)
           ELSE IF IdBehind(arg, <<"/", "spreadsheets", "/", "u", "/", "0", "/", "d", "/">>) # None
           THEN /\ ret = IdBehind(arg, <<"/", "spreadsheets", "/", "u", "/", "0", "/", "d", "/">>)
                /\ <<"extract_id_from_url">> \notin Range(log)
           ELSE /\ log[Len(log)] = <<"extract_id_from_url">>
                /\ ret = extract_id_from_url(arg)
                /\ ( /\ ~Contains(arg, <<"/", "spreadsheets", "/", "d", "/">>)
                     /\ ~Contains(arg, <<"key", "=">>) ) => ret = None
                /\ Contains(arg, <<"/", "document", "/", "d", "/">>) => ret = None

\* C16 witness: a '/spreadsheets/u/0/d/' link that continues to a
\* '/spreadsheets/d/e/' link: the first rule decides, the extractor, which
\* would take 'e' for the id, is not called
C16_Witness ==
    /\ fn = "returned"
    /\ Find(arg, patterns[2]) # 0
    /\ Find(arg, patterns[2]) < Find(arg, patterns[1])
    /\ extract_id_from_url(arg) = <<"e">>
    /\ ret = <<"ID2">>
    /\ Len(log) = 1

\* ----------------------------------------------------- transformations.py
\* Labels and cells are texts: sequences of tokens, cut so that a text
\* contains another as a substring exactly when its tokens contain the
\* other's tokens in a row.
\* python: str.lower(), token by token
LowerToken(t) ==
    CASE t = "Price" -> "price"
      [] t = "Mold" -> "mold"
      [] t = "Plastic" -> "plastic"
      [] t = "Shipp" -> "shipp"
      [] t = "BIN" -> "bin"
      [] OTHER -> t

lower(text) == [k \in 1..Len(text) |-> LowerToken(text[k])]

\* python: str.strip()
RECURSIVE RStrip(_)
RStrip(s) ==
    IF s # <<>> /\ s[Len(s)] \in Whitespace THEN RStrip(Take(s, Len(s) - 1))
    ELSE s

strip(text) == RStrip(LStrip(text))

\* Spreadsheet.__struct_fields__
mapping_keys ==
    << <<"price">>, <<"manuf", "acturer">>, <<"mold">>, <<"plastic">>,
       <<"color">>, <<"cond", "ition">>, <<"ink">>, <<"pic", "ture">>,
       <<"price", "_", "shipp", "ed">>, <<"stamp">>, <<"weight">>,
       <<"status">>, <<"note", "s">>, <<"weight", "_", "scale", "d">>,
       <<"sheet_id">>, <<"sheet_url">> >>

mappings_list ==
    << << <<"price">>, <<"bin">>, <<"buy", " ", "it", " ", "now">>,
          <<"amount">>, <<"cost">> >>,
       << <<"manuf">>, <<"company">>, <<"brand">>, <<"mfg">> >>,
       << <<"mold">>, <<"mold", " ", "name">>, <<"model">>, <<"disc">>,
          <<"name">> >>,
       << <<"plastic">> >>,
       << <<"color">>, <<"colour">> >>,
       << <<"cond", "ition">>, <<"cond", ".">>, <<"rating">> >>,
       << <<"ink">>, <<"marked">> >>,
       << <<"image">>, <<"photo">>, <<"pic">> >>,
       << <<"shipp">> >>,
       << <<"stamp">> >>,
       << <<"weight">>, <<"grams">> >>,
       << <<"status">> >>,
       << <<"note">>, <<"comment">>, <<"details">> >>,
       << <<"scale">> >> >>

\* dict(zip(mapping_keys, mappings_list)): the items, in insertion order; zip
\* stops at the shorter of the two
mappings ==
    [k \in 1..(IF Len(mapping_keys) < Len(mappings_list)
               THEN Len(mapping_keys) ELSE Len(mappings_list)) |->
        [key |-> mapping_keys[k], possible_values |-> mappings_list[k]]]

\* a grid: its column labels and its rows of cells
Grid(columns, rows) == [columns |-> columns, rows |-> rows]

\* dataframe.columns.str.lower().str.strip().tolist()
df_lower_strip(dataframe) ==
    [k \in 1..Len(dataframe.columns) |-> strip(lower(dataframe.columns[k]))]

\* header_match_count: the dict {key: Counter(mapping_keys)[key] for key in
\* row} has one entry per distinct label, 1 for a canonical name and 0 for
\* any other; the count is the sum of its values
header_match_count(row) ==
    Cardinality({key \in Range(row) : key \in Range(mapping_keys)})

\* 'column', the loc of a header that is the column row
ColumnLoc == -1

\* Python's None where a row index is expected
NoLoc == -2

\* Python's None where a list of labels is expected
NoLabels == <<None>>

\* list(map(lower_strip, values)) of row n (from 0); cells are strings
RowLowerStrip(dataframe, n) ==
    [k \in 1..Len(dataframe.rows[n + 1]) |->
        strip(lower(dataframe.rows[n + 1][k]))]

\* search_rows_for_header: the first row with a canonical name among its
\* lower-cased, stripped values
search_rows_for_header(dataframe) ==
    IF \E n \in 0..(Len(dataframe.rows) - 1) :
          \E header \in Range(mapping_keys) :
             header \in Range(RowLowerStrip(dataframe, n))
    THEN CHOOSE n \in 0..(Len(dataframe.rows) - 1) :
            /\ \E header \in Range(mapping_keys) :
                  header \in Range(RowLowerStrip(dataframe, n))
            /\ \A m \in 0..(n - 1) :
                  \A header \in Range(mapping_keys) :
                     header \notin Range(RowLowerStrip(dataframe, m))
    ELSE NoLoc

\* what header_find returns: the dict, and for None a dict with found false
HeaderDict(loc, col_values, match_count, found) ==
    [loc |-> loc, col_values |-> col_values, match_count |-> match_count,
     found |-> found]

NoHeader == HeaderDict(NoLoc, NoLabels, 0, FALSE)

\* header_find, the branch count >= 2; NoHeader when it is not taken
HeaderFindColumns(dataframe) ==
    IF header_match_count(df_lower_strip(dataframe)) >= 2
    THEN HeaderDict(ColumnLoc, df_lower_strip(dataframe),
                    header_match_count(df_lower_strip(dataframe)), TRUE)
    ELSE NoHeader

\* header_find, the else branch, given what search_rows_for_header returned
HeaderFindRow(dataframe, search_rows_result) ==
    IF search_rows_result # NoLoc
          /\ header_match_count(RowLowerStrip(dataframe, search_rows_result)) > 2
    THEN HeaderDict(search_rows_result,
                    RowLowerStrip(dataframe, search_rows_result),
                    header_match_count(
                        RowLowerStrip(dataframe, search_rows_result)), TRUE)
    ELSE NoHeader

header_find(dataframe) ==
    IF HeaderFindColumns(dataframe).found THEN HeaderFindColumns(dataframe)
    ELSE HeaderFindRow(dataframe, search_rows_for_header(dataframe))

\* ---------------------------------------------------- header_find, by steps
\* the grids header_find is called with: three columns, the labels distinct
\* as pandas keeps them; rows of text cells
ColumnRows ==
    {<<a, b, c>> : a \in {<<"Price">>, <<"0">>},
                   b \in {<<"price", " ">>, <<"Mold">>, <<"1">>},
                   c \in {<<"plastic">>, <<"2">>}}

DataRows ==
    { << <<"x">>, <<>>, <<"x">> >>,
      << <<"Price">>, <<"x">>, <<>> >>,
      << <<"price">>, <<" ", "Mold">>, <<"x">> >>,
      << <<"Mold", " ">>, <<"plastic">>, <<"Price">> >>,
      << <<"price">>, <<"Price">>, <<"mold">> >> }

Grids ==
    {Grid(columns, rows) :
        columns \in ColumnRows, rows \in SeqsUpTo(DataRows, MaxRows)}

InitHeader ==
    /\ PipelineInit
    /\ fn = "header_find"
    /\ arg \in Grids
    /\ ret = NoHeader
    /\ log = <<>>

\* header_find up to the test of count >= 2: it returns, or goes on to
\* search the rows
HeaderFind ==
    /\ fn = "header_find"
    /\ \E found \in {HeaderFindColumns(arg)} :
          /\ ret' = found
          /\ fn' = IF found.found THEN "returned" ELSE "search_rows_for_header"
    /\ UNCHANGED <<arg, log, pvars, dvars, runs>>

\* search_rows_for_header(dataframe) returns
SearchRowsForHeader ==
    /\ fn = "search_rows_for_header"
    /\ log' = <<search_rows_for_header(arg)>>
    /\ fn' = "search_rows_result"
    /\ UNCHANGED <<arg, ret, pvars, dvars, runs>>

\* header_find, the rest of the else branch
HeaderFindRows ==
    /\ fn = "search_rows_result"
    /\ ret' = HeaderFindRow(arg, log[1])
    /\ fn' = "returned"
    /\ UNCHANGED <<arg, log, pvars, dvars, runs>>

HeaderNext == HeaderFind \/ SearchRowsForHeader \/ HeaderFindRows

SpecHeader == InitHeader /\ [][HeaderNext]_vars

\* the number of labels that, lower-cased and trimmed, are canonical names
CanonicalCount(labels) ==
    Cardinality({k \in 1..Len(labels) :
                    strip(lower(labels[k])) \in Range(mapping_keys)})

\* C17 as claimed: when at least 2 column labels, lower-cased and trimmed,
\* are canonical names, header_find returns found, at the column row, with
\* that number as match count, and has not searched the rows; with fewer
\* than 2 it has searched the rows.
C17_ColumnRowAccepted ==
    fn = "returned" =>
        IF CanonicalCount(arg.columns) >= 2
        THEN /\ ret = HeaderDict(ColumnLoc, df_lower_strip(arg),
                                 CanonicalCount(arg.columns), TRUE)
             /\ log = <<>>
        ELSE log # <<>>

\* the rows (from 0) that hold more than 2 canonical names among their
\* lower-cased, trimmed values
QualifyingRows(dataframe) ==
    {n \in 0..(Len(dataframe.rows) - 1) :
        header_match_count(RowLowerStrip(dataframe, n)) > 2}

\* C18 as claimed: when the rows are searched, header_find returns found at
\* the first row that holds more than 2 canonical names, and not found only
\* when no row does.
C18_FirstQualifyingRow ==
    (fn = "returned" /\ log # <<>>) =>
        IF QualifyingRows(arg) = {} THEN ~ret.found
        ELSE /\ ret.found
             /\ ret.loc \in QualifyingRows(arg)
             /\ \A m \in QualifyingRows(arg) : ret.loc <= m

\* ------------------------------------------------ map_headers, on its own
\* what the loop over mappings.items() appends for one header, from item k
\* on: the exact match appends and leaves the loop; the substring match
\* appends and leaves only the loop over the synonyms; mapped tells whether
\* an earlier item appended
RECURSIVE MapHeader(_, _, _, _)
MapHeader(header, mapping, k, mapped) ==
    IF k > Len(mapping) THEN IF mapped THEN <<>> ELSE <<header>>
    ELSE IF lower(header) \in Range(mapping[k].possible_values)
    THEN <<mapping[k].key>>
    ELSE IF \E possible_value \in Range(mapping[k].possible_values) :
               Contains(lower(header), lower(possible_value))
    THEN <<mapping[k].key>> \o MapHeader(header, mapping, k + 1, TRUE)
    ELSE MapHeader(header, mapping, k + 1, mapped)

RECURSIVE map_headers(_, _)
map_headers(headers, mapping) ==
    IF headers = <<>> THEN <<>>
    ELSE MapHeader(Head(headers), mapping, 1, FALSE)
            \o map_headers(Tail(headers), mapping)

\* the raw labels map_headers is called with
RawLabels ==
    {<<"bin">>, <<"BIN">>, <<"mfg">>, <<"mold", " ", "name">>, <<"Price">>,
     <<"price", " ", "Shipp", "ed">>, <<"Shipp", "ing">>, <<"serial">>}

InitMap ==
    /\ PipelineInit
    /\ fn = "map_headers"
    /\ arg \in SeqsUpTo(RawLabels, MaxHeaders)
    /\ ret = <<>>
    /\ log = <<>>

MapHeaders ==
    /\ fn = "map_headers"
    /\ ret' = map_headers(arg, mappings)
    /\ fn' = "returned"
    /\ UNCHANGED <<arg, log, pvars, dvars, runs>>

MapNext == MapHeaders

SpecMap == InitMap /\ [][MapNext]_vars

\* the fields (by their place in the table) with a synonym that is the
\* label or is contained in it, case-insensitively
MatchingFields(label) ==
    {k \in 1..Len(mappings) :
        \E v \in Range(mappings[k].possible_values) :
            Contains(lower(label), lower(v))}

\* C19 as claimed: map_headers returns as many labels as it was given, and
\* the k-th is the canonical name of the first field that matches the k-th
\* raw label, or the raw label when no field matches.
C19_OneLabelPerHeader ==
    fn = "returned" =>
        /\ Len(ret) = Len(arg)
        /\ \A k \in 1..Len(arg) :
              IF MatchingFields(arg[k]) = {} THEN ret[k] = arg[k]
              ELSE \E f \in MatchingFields(arg[k]) :
                      /\ \A g \in MatchingFields(arg[k]) : f <= g
                      /\ ret[k] = mappings[f].key

\* -------------------------------------------- replace_headers, on its own
\* the dataclass Headers; sheet_post is the SheetPost the grid was
\* downloaded for, here its sheet_id
Headers(df, sheet_post, found, col_trans, match_count, loc, col_values) ==
    [df |-> df, sheet_post |-> sheet_post, found |-> found,
     col_trans |-> col_trans, match_count |-> match_count, loc |-> loc,
     col_values |-> col_values]

\* mutant: the header row is kept as the first row
header_format_keeping_header_row(data) ==
    IF data.found /\ data.loc # ColumnLoc
    THEN [data EXCEPT !.df = Grid(data.col_values, Drop(data.df.rows, data.loc))]
    ELSE IF data.found /\ data.loc = ColumnLoc
    THEN [data EXCEPT !.df = Grid(data.col_values, data.df.rows)]
    ELSE data

\* header_format: a header found in a row becomes the column row and the
\* rows up to it are dropped; a header found in the column row replaces it
header_format(data) ==
    IF data.found /\ data.loc # ColumnLoc
    THEN [data EXCEPT !.df = Grid(data.col_values,
                                  Drop(data.df.rows, data.loc + 1))]
    ELSE IF data.found /\ data.loc = ColumnLoc
    THEN [data EXCEPT !.df = Grid(data.col_values, data.df.rows)]
    ELSE data

\* header_parse, for one cached sheet: header_find, Headers(...) with the
\* defaults of the dataclass, header_format
HeaderParsed(sheet_post, df, h) ==
    header_format(Headers(df, sheet_post, h.found, FALSE, h.match_count,
                          h.loc, h.col_values))

\* mutant: the lengths are not compared
ReplaceHeader_without_length_test(h) ==
    IF h.found
    THEN [h EXCEPT !.df = Grid(map_headers(h.col_values, mappings), h.df.rows),
                   !.col_trans = TRUE]
    ELSE h

\* replace_headers, one pass of the loop
ReplaceHeader(h) ==
    IF h.found /\ Len(map_headers(h.col_values, mappings)) = Len(h.col_values)
    THEN [h EXCEPT !.df = Grid(map_headers(h.col_values, mappings), h.df.rows),
                   !.col_trans = TRUE]
    ELSE h

replace_headers(headers) ==
    [k \in 1..Len(headers) |-> ReplaceHeader(headers[k])]

\* the Headers header_parse returns for grids of three columns with no row,
\* or with one row that holds three canonical names
HeadersPool ==
    {HeaderParsed(<<"ID1">>, Grid(columns, rows), header_find(Grid(columns, rows))) :
        columns \in {<<a, b, c>> :
                        a \in {<<"Price">>, <<"0">>},
                        b \in {<<"Mold">>, <<"BIN">>},
                        c \in {<<"Plastic">>, <<"price", " ", "Shipp", "ed">>}},
        rows \in {<<>>, << << <<"Mold", " ">>, <<"plastic">>, <<"Price">> >> >>}}

InitReplace ==
    /\ PipelineInit
    /\ fn = "replace_headers"
    /\ arg \in SeqsUpTo(HeadersPool, MaxHeaders)
    /\ ret = <<>>
    /\ log = <<>>

\* replace_headers(headers): the objects of the list afterwards
ReplaceHeaders ==
    /\ fn = "replace_headers"
    /\ ret' = replace_headers(arg)
    /\ fn' = "returned"
    /\ UNCHANGED <<arg, log, pvars, dvars, runs>>

ReplaceNext == ReplaceHeaders

SpecReplace == InitReplace /\ [][ReplaceNext]_vars

\* the header was found and mapping its labels gives as many labels
Committed(h) ==
    h.found /\ Len(map_headers(h.col_values, mappings)) = Len(h.col_values)

\* C20: after replace_headers an object whose header was found and whose
\* mapped labels are as many as its raw labels has the mapped labels as
\* column labels and col_trans true, and is otherwise as before; every
\* other object is as before, column labels and col_trans included.
C20_CommitOnlySameLength ==
    fn = "returned" =>
        /\ Len(ret) = Len(arg)
        /\ \A k \in 1..Len(arg) :
              IF Committed(arg[k])
              THEN /\ ret[k].df.columns = map_headers(arg[k].col_values, mappings)
                   /\ ret[k].col_trans
                   /\ ret[k] = [arg[k] EXCEPT !.df.columns = ret[k].df.columns,
                                              !.col_trans = TRUE]
              ELSE ret[k] = arg[k] /\ ~ret[k].col_trans

\* C20 witness: a list of a found header whose mapped labels are one more
\* than its raw labels, left as it was, and a found header whose labels
\* were rewritten
C20_Witness ==
    /\ fn = "returned"
    /\ Len(arg) = 2
    /\ arg[1].found
    /\ Len(map_headers(arg[1].col_values, mappings)) = Len(arg[1].col_values) + 1
    /\ ret[1] = arg[1]
    /\ arg[2].found
    /\ ret[2].col_trans
    /\ ret[2].df.columns # arg[2].df.columns

\* ------------------------------------------------------ Author, on its own
\* Author.__post_init__, on the struct the constructor has filled in
AuthorPostInit(self) == [self EXCEPT !.flair = AuthorFlair(self.author_flair_text)]

\* the flair texts: absent, empty, and up to MaxWords words
FlairTexts == {None} \cup SeqsUpTo({"5", "12", "-3", "trades"}, MaxWords)

\* the arguments Author(...) is called with
AuthorArgs ==
    [name : {<<"ann">>}, flair : {0, 7}, author_flair_text : FlairTexts]

InitAuthor ==
    /\ PipelineInit
    /\ fn = "Author"
    /\ arg \in AuthorArgs
    /\ ret = [name |-> None, flair |-> 0, author_flair_text |-> None]
    /\ log = <<>>

\* Author(name=..., flair=..., author_flair_text=...)
NewAuthor ==
    /\ fn = "Author"
    /\ ret' = AuthorPostInit(arg)
    /\ fn' = "returned"
    /\ UNCHANGED <<arg, log, pvars, dvars, runs>>

AuthorNext == NewAuthor

SpecAuthor == InitAuthor /\ [][AuthorNext]_vars

\* C21 as claimed: the flair of an Author is not negative and is what the
\* flair text alone gives, whatever flair was passed: 0 when the text is
\* absent or empty, its first word when that is a number.
C21_FlairNonNegative ==
    fn = "returned" =>
        /\ ret.flair >= 0
        /\ ret.flair = Author(arg.name, arg.author_flair_text).flair
        /\ ~Truthy(arg.author_flair_text) => ret.flair = 0
        /\ ( Truthy(arg.author_flair_text)
             /\ arg.author_flair_text[1] \in DigitWords )
           => ret.flair = IntOf(arg.author_flair_text[1])

\* ------------------------------------------ RedisCache, called on its own
\* what a call gave its caller: a value, Python's None, or an exception
Returned(value) == [kind |-> "value", val |-> <<value>>]

ReturnedNone == [kind |-> "None", val |-> <<>>]

Raised(exception) == [kind |-> exception, val |-> <<>>]

\* self.r.get(key): the bytes stored under the key, or None (here <<>>)
r_get(key) == IF key \in DOMAIN cache_kv THEN <<cache_kv[key]>> ELSE <<>>

\* self.r.hget('sheets', key): the bytes of the field, or None (here <<>>)
r_hget(key) == IF key \in DOMAIN cache_sheets THEN <<cache_sheets[key]>> ELSE <<>>

\* msgspec.msgpack.decode(reply, type=SheetPost): None is no buffer, which
\* is a TypeError; bytes that are no encoded SheetPost are a DecodeError
msgpack_decode(reply) ==
    IF reply = <<>> THEN Raised("TypeError")
    ELSE IF reply[1].enc # "msgpack" THEN Raised("DecodeError")
    ELSE Returned(reply[1].val)

\* the posts parse_submissions stores under post:{id}
CachedPosts == {ParsedPost(Submissions[p]) : p \in {"p1", "p2", "p6"}}

\* the items cache_sheets stores under sheet:{sheet_id}
CachedSheets ==
    {UpdatedSheet(post, [sheet_id |-> post.sheet_id, df |-> DataFrame(post.sheet_id)], now) :
        post \in CachedPosts, now \in 1..MaxRuns}

\* the keys get is called with, and the fields hget is called with
CacheKeys == {post.id : post \in CachedPosts}

\* the store as a call found it
Store == [kv |-> cache_kv, sheets |-> cache_sheets]

InitCache ==
    /\ PipelineInit
    /\ fn = "RedisCache"
    /\ arg = <<>>
    /\ ret = ReturnedNone
    /\ log = <<Store>>

\* RedisCache.set(f"post:{value.id}", value)
CacheSet(value) ==
    /\ cache_kv' = [k \in DOMAIN cache_kv \cup {value.id} |->
                      IF k = value.id THEN encode(value) ELSE cache_kv[k]]
    /\ fn' = "set"
    /\ arg' = <<value.id>>
    /\ ret' = ReturnedNone
    /\ log' = <<Store>>
    /\ UNCHANGED <<cache_sheets, lvars, dvars, runs>>

\* RedisCache.get(f"post:{key}")
CacheGet(key) ==
    /\ fn' = "get"
    /\ arg' = <<key>>
    /\ ret' = msgpack_decode(r_get(key))
    /\ log' = <<Store>>
    /\ UNCHANGED <<cache_kv, cache_sheets, lvars, dvars, runs>>

\* RedisCache.hset("sheets", f"sheet:{value.sheet_id}", value)
CacheHset(value) ==
    /\ cache_sheets' = CacheSheetsInto(cache_sheets, <<value>>)
    /\ fn' = "hset"
    /\ arg' = <<value.sheet_id>>
    /\ ret' = ReturnedNone
    /\ log' = <<Store>>
    /\ UNCHANGED <<cache_kv, lvars, dvars, runs>>

\* RedisCache.hget("sheets", f"sheet:{key}")
CacheHget(key) ==
    /\ fn' = "hget"
    /\ arg' = <<key>>
    /\ ret' = msgpack_decode(r_hget(key))
    /\ log' = <<Store>>
    /\ UNCHANGED <<cache_kv, cache_sheets, lvars, dvars, runs>>

CacheNext ==
    \/ \E value \in CachedPosts : CacheSet(value)
    \/ \E key \in CacheKeys : CacheGet(key)
    \/ \E value \in CachedSheets : CacheHset(value)
    \/ \E key \in DocIds : CacheHget(key)

SpecCache == InitCache /\ [][CacheNext]_vars

\* the last call was a get or hget of something the store did not hold
\* (nothing is ever deleted here: it was never written)
Missed ==
    \/ fn = "get" /\ arg[1] \notin DOMAIN log[1].kv
    \/ fn = "hget" /\ arg[1] \notin DOMAIN log[1].sheets

\* C22 as claimed: get and hget of a key or field that was never written
\* give the caller None, raise nothing, and leave the store as it was.
C22_MissReturnsNone ==
    Missed => ret = ReturnedNone /\ Store = log[1]

\* ------------------------------- RedisCache.get_all_hash and header_parse
\* the number of slots of the table the store keeps hash 'sheets' in
MaxBuckets == 2

\* count=20 of the hscan call
ScanCount == 20

\* a cursor as Python holds it: the str '0' is not the int 0
StrCursor(n) == [type |-> "str", n |-> n]

IntCursor(n) == [type |-> "int", n |-> n]

\* mutant: the scan starts from the int 0
InitialCursor_int == IntCursor(0)

\* cursor = '0'
InitialCursor == StrCursor(0)

\* the fields hash 'sheets' can hold, in the order the store walks them: the
\* documents' and one that something else wrote
ScanFields == <<<<"ID1">>, <<"ID2">>, <<"ID3">>>>

\* the slot of the store's table a field is kept in
Bucket(k) == (k - 1) % MaxBuckets

\* HSCAN sheets cursor MATCH sheet:* COUNT 20, as redis-py returns it: the
\* fields of one slot with their values, and the int cursor of the next
\* slot, 0 after the last one
hscan(cursor) ==
    [cursor |-> IntCursor(IF cursor.n + 1 < MaxBuckets THEN cursor.n + 1 ELSE 0),
     items |-> SelectSeq(
         [k \in 1..Len(ScanFields) |->
             IF ScanFields[k] \in DOMAIN cache_sheets /\ Bucket(k) = cursor.n
             THEN <<cache_sheets[ScanFields[k]]>> ELSE <<>>],
         LAMBDA slot : slot # <<>>)]

\* msgspec.json.decode(item.sheet_raw): the grid DataFrame.to_json wrote
json_decode(text) == Tail(text)

\* the body of the for loop, for a value that decodes
DecodedItem(value) == [value.val EXCEPT !.sheet_raw = json_decode(@)]

\* msgspec.msgpack.decode(value, type=SheetPost) does not raise
Decodable(value) == value.enc = "msgpack"

\* the for loop over items.values(), when no value raises
DecodedItems(values) == [k \in 1..Len(values) |-> DecodedItem(values[k][1])]

\* one self.r.hscan call and what it returned
HScanCall(cursor, reply) ==
    [hash |-> "sheets", cursor |-> cursor, match |-> "sheet:*",
     count |-> ScanCount, reply |-> reply]

\* pd.DataFrame(sheet.sheet_raw): the grid of each document
SheetGrid(sheet_raw) ==
    IF sheet_raw = DataFrame(<<"ID1">>)
    THEN Grid(<<<<"Price">>, <<"Mold", " ">>, <<"x">>>>, <<<<<<"1">>, <<"a">>, <<>>>>>>)
    ELSE Grid(<<<<"0">>, <<"1">>, <<"2">>>>,
              <<<<<<"x">>, <<>>, <<>>>>, <<<<"price">>, <<"plastic">>, <<"x">>>>,
                <<<<"1">>, <<"a">>, <<>>>>>>)

\* header_parse, from the list get_all_hash returned
header_parse(sheets) ==
    [k \in 1..Len(sheets) |->
        HeaderParsed(sheets[k], SheetGrid(sheets[k].sheet_raw),
                     header_find(SheetGrid(sheets[k].sheet_raw)))]

\* nothing is cached; header_parse has not been called
InitScan ==
    /\ PipelineInit
    /\ fn = "idle"
    /\ arg = [cursor |-> InitialCursor, data |-> <<>>]
    /\ ret = <<>>
    /\ log = <<>>

\* cache_sheets of a pipeline run writes an item, at any time
ScanHset(value) ==
    /\ cache_sheets' = CacheSheetsInto(cache_sheets, <<value>>)
    /\ UNCHANGED <<cache_kv, lvars, dvars, fvars, runs>>

\* header_parse is called and calls get_all_hash: data = [], cursor = '0'
GetAllHash ==
    /\ fn \in {"idle", "done", "raised"}
    /\ fn' = "get_all_hash"
    /\ arg' = [cursor |-> InitialCursor, data |-> <<>>]
    /\ ret' = <<>>
    /\ log' = <<>>
    /\ sheets_at_start' = DOMAIN cache_sheets
    /\ UNCHANGED <<cache_kv, cache_sheets, pc, run, ss, i, sheet_posts,
                   u_posts, u_sheets, j, items, set_log, dl_log, failed,
                   dl_ok, dvars, runs>>

\* get_all_hash, one pass of the while loop: hscan, then the for loop; a
\* value that does not decode raises, and nothing catches it
HScan ==
    /\ fn = "get_all_hash"
    /\ arg.cursor # IntCursor(0)
    /\ \E reply \in {hscan(arg.cursor)} :
          /\ log' = Append(log, HScanCall(arg.cursor, reply))
          /\ IF \A k \in 1..Len(reply.items) : Decodable(reply.items[k][1])
             THEN /\ arg' = [cursor |-> reply.cursor,
                             data |-> arg.data \o DecodedItems(reply.items)]
                  /\ fn' = fn
             ELSE /\ arg' = arg
                  /\ fn' = "raised"
    /\ UNCHANGED <<ret, pvars, dvars, runs>>

\* get_all_hash: cursor is 0, the loop ends and data is returned
GetAllHashReturn ==
    /\ fn = "get_all_hash"
    /\ arg.cursor = IntCursor(0)
    /\ fn' = "header_parse"
    /\ UNCHANGED <<arg, ret, log, pvars, dvars, runs>>

\* header_parse, the rest of it
HeaderParse ==
    /\ fn = "header_parse"
    /\ ret' = header_parse(arg.data)
    /\ fn' = "done"
    /\ UNCHANGED <<arg, log, pvars, dvars, runs>>

ScanNext ==
    \/ \E value \in CachedSheets : ScanHset(value)
    \/ GetAllHash
    \/ HScan
    \/ GetAllHashReturn
    \/ HeaderParse

SpecScan == InitScan /\ [][ScanNext]_vars

\* get_all_hash goes on when it can
SpecScanFair == SpecScan /\ WF_vars(HScan) /\ WF_vars(GetAllHashReturn)

\* something else writes bytes that are no SheetPost into hash 'sheets'
ForeignHset ==
    /\ cache_sheets' = [f \in DOMAIN cache_sheets \cup {<<"ID3">>} |->
                          IF f = <<"ID3">> THEN [enc |-> "bytes", val |-> None]
                          ELSE cache_sheets[f]]
    /\ UNCHANGED <<cache_kv, lvars, dvars, fvars, runs>>

ScanCorruptNext == ScanNext \/ ForeignHset

SpecScanCorrupt == InitScan /\ [][ScanCorruptNext]_vars

\* C23 as claimed: an entry that does not decode stops neither the scan nor
\* the header pass, and every entry that was there when the scan began and
\* decodes has its headers parsed.
C23_DecodeErrorIsolated ==
    /\ fn # "raised"
    /\ fn = "done" =>
          \A f \in sheets_at_start :
              Decodable(cache_sheets[f]) =>
                  \E k \in 1..Len(ret) : ret[k].sheet_post.sheet_id = f

\* the decoded items of the batches of the calls made so far, in order
RECURSIVE BatchesDecoded(_)
BatchesDecoded(calls) ==
    IF calls = <<>> THEN <<>>
    ELSE BatchesDecoded(Take(calls, Len(calls) - 1))
             \o DecodedItems(calls[Len(calls)].reply.items)

\* the calls of a scan follow the cursor protocol, and data holds every
\* item they returned
ScanProtocol ==
    /\ \A k \in 1..Len(log) :
          /\ log[k].hash = "sheets"
          /\ log[k].match = "sheet:*"
          /\ log[k].count = ScanCount
          /\ log[k].cursor = IF k = 1 THEN StrCursor(0) ELSE log[k - 1].reply.cursor
          /\ k < Len(log) => log[k].reply.cursor # IntCursor(0)
    /\ log # <<>> => arg.cursor = log[Len(log)].reply.cursor
    /\ arg.data = BatchesDecoded(log)

\* get_all_hash has returned
ScanReturned == fn \in {"header_parse", "done"}

\* C24: get_all_hash calls hscan on 'sheets' with match sheet:* and count 20
\* at least once, each call with the cursor the call before returned, and
\* returns exactly when a call returned cursor 0, with the decoded items of
\* all the batches, so with every field that was there all along; and a
\* scan that has begun returns.
C24_ScanToCursorZero ==
    /\ [](fn \in {"get_all_hash", "header_parse", "done"} => ScanProtocol)
    /\ [](ScanReturned =>
            /\ Len(log) >= 1
            /\ log[Len(log)].reply.cursor = IntCursor(0)
            /\ \A f \in sheets_at_start :
                  \E k \in 1..Len(arg.data) : arg.data[k].sheet_id = f)
    /\ (fn = "get_all_hash" ~> ScanReturned)

\* a scan of several calls has returned several items, one of a field that
\* was written again while the scan went on
C24_Witness ==
    /\ ScanReturned
    /\ Len(log) >= 2
    /\ Len(arg.data) >= 2
    /\ \E k \in 1..Len(arg.data) :
          encode([arg.data[k] EXCEPT !.sheet_raw = <<"json">> \o @])
              # cache_sheets[arg.data[k].sheet_id]

\* ------------------------------------------- two sheet_query calls at once
\* how many posts a search returns when two runs share the cache
MaxRaceSearch == 2

RunIds == {1, 2}

\* what sr.search returns to either run
RaceResults == SeqsUpTo({"p1", "p2", "p3"}, MaxRaceSearch)

\* the locals of a sheet_query call that has not begun, and its history:
\* missed, the posts cache.exists did not find; dl_log, the ids
\* download_sheet was called with; overlap, whether the other call was
\* under way when this one began
RunLocals ==
    [pc |-> "idle", ss |-> <<>>, i |-> 0, sheet_posts |-> <<>>,
     u_sheets |-> <<>>, j |-> 0, items |-> <<>>, missed |-> {},
     dl_log |-> <<>>, overlap |-> FALSE]

Active(r) == runs[r].pc \notin {"idle", "done", "raised"}

InitRace ==
    /\ cache_kv = <<>>
    /\ cache_sheets = <<>>
    /\ runs = [r \in RunIds |-> RunLocals]
    /\ pc = "idle"
    /\ run = 0
    /\ ss = <<>>
    /\ i = 0
    /\ sheet_posts = <<>>
    /\ u_posts = <<>>
    /\ u_sheets = <<>>
    /\ j = 0
    /\ items = <<>>
    /\ set_log = <<>>
    /\ dl_log = <<>>
    /\ sheets_at_start = {}
    /\ failed = {}
    /\ dl_ok = {}
    /\ dfh = [DFhandlerInit(None) EXCEPT !.pc = "None"]
    /\ dl_pc = "idle"
    /\ dl_result = NoHandler
    /\ fn = "idle"
    /\ arg = <<>>
    /\ ret = <<>>
    /\ log = <<>>

\* run r: sheet_query is called and sr.search returns
RaceSheetQuery(r, result) ==
    /\ runs[r].pc = "idle"
    /\ runs' = [runs EXCEPT ![r] =
                  [@ EXCEPT !.pc = "exists", !.ss = result,
                            !.overlap = \E o \in RunIds \ {r} : Active(o)]]
    /\ UNCHANGED <<pvars, dvars, fvars>>

\* run r, parse_submissions: cache.exists(f"post:{post.id}")
RaceExists(r) ==
    /\ runs[r].pc = "exists"
    /\ runs[r].i < Len(runs[r].ss)
    /\ runs' = [runs EXCEPT ![r] =
                  IF exists(@.ss[@.i + 1])
                  THEN [@ EXCEPT !.i = @ + 1]
                  ELSE [@ EXCEPT !.pc = "set",
                                 !.missed = @ \cup {runs[r].ss[runs[r].i + 1]}]]
    /\ UNCHANGED <<pvars, dvars, fvars>>

\* run r, parse_submissions: the rest of the pass for a post that was not
\* found, up to cache.set; post.author.name raises when the author is None
RaceSet(r) ==
    /\ runs[r].pc = "set"
    /\ \E post \in {Submissions[runs[r].ss[runs[r].i + 1]]} :
          IF post.author = None
          THEN /\ runs' = [runs EXCEPT ![r].pc = "raised"]
               /\ UNCHANGED cache_kv
          ELSE \E submission \in {ParsedPost(post)} :
                  /\ cache_kv' = [k \in DOMAIN cache_kv \cup {submission.id} |->
                                    IF k = submission.id THEN encode(submission)
                                    ELSE cache_kv[k]]
                  /\ runs' = [runs EXCEPT ![r] =
                                [@ EXCEPT !.pc = "exists", !.i = @ + 1,
                                          !.sheet_posts =
                                              IF submission.sheet_url # None
                                              THEN Append(@, submission)
                                              ELSE @]]
    /\ UNCHANGED <<cache_sheets, lvars, dvars, fvars>>

\* run r: parse_submissions returns; sheet_query sorts and removes duplicates
RaceParseReturn(r) ==
    /\ runs[r].pc = "exists"
    /\ runs[r].i = Len(runs[r].ss)
    /\ runs' = [runs EXCEPT ![r] =
                  [@ EXCEPT !.pc = "check_cache",
                            !.sheet_posts = SortCreatedDesc(@),
                            !.u_sheets = unique_sheets(
                                SortCreatedDesc(runs[r].sheet_posts))]]
    /\ UNCHANGED <<pvars, dvars, fvars>>

\* run r, add_sheet_data: check_cache(sheet.sheet_id)
RaceCheckCache(r) ==
    /\ runs[r].pc = "check_cache"
    /\ runs[r].j < Len(runs[r].u_sheets)
    /\ runs' = [runs EXCEPT ![r] =
                  IF check_cache(@.u_sheets[@.j + 1].sheet_id)
                  THEN [@ EXCEPT !.j = @ + 1]
                  ELSE [@ EXCEPT !.pc = "download_sheet"]]
    /\ UNCHANGED <<pvars, dvars, fvars>>

\* run r, add_sheet_data: download_sheet runs to its end
RaceDownload(r, outs) ==
    /\ runs[r].pc = "download_sheet"
    /\ \E sheet \in {runs[r].u_sheets[runs[r].j + 1]} :
       \E dl_sheet \in {download_sheet(RunDFhandler(
                           DFhandlerInit(sheet.sheet_id), outs))} :
          runs' = [runs EXCEPT ![r] =
                     [@ EXCEPT !.pc = "check_cache", !.j = @ + 1,
                               !.dl_log = Append(@, sheet.sheet_id),
                               !.items = IF dl_sheet # NoHandler
                                         THEN Append(@, UpdatedSheet(sheet, dl_sheet, r))
                                         ELSE @]]
    /\ UNCHANGED <<pvars, dvars, fvars>>

\* run r: add_sheet_data returns, cache_sheets writes the items, sheet_query
\* returns
RaceCacheSheets(r) ==
    /\ runs[r].pc = "check_cache"
    /\ runs[r].j = Len(runs[r].u_sheets)
    /\ cache_sheets' = CacheSheetsInto(cache_sheets, runs[r].items)
    /\ runs' = [runs EXCEPT ![r].pc = "done"]
    /\ UNCHANGED <<cache_kv, lvars, dvars, fvars>>

RaceNext ==
    \E r \in RunIds :
        \/ \E result \in RaceResults : RaceSheetQuery(r, result)
        \/ RaceExists(r)
        \/ RaceSet(r)
        \/ RaceParseReturn(r)
        \/ RaceCheckCache(r)
        \/ \E outs \in ServiceRuns : RaceDownload(r, outs)
        \/ RaceCacheSheets(r)

SpecRace == InitRace /\ [][RaceNext]_vars

\* both runs found the same post missing and its document missing, and both
\* called download_sheet with that document
DoubleProcessed ==
    \E p \in runs[1].missed \cap runs[2].missed :
        \E d \in Range(runs[1].dl_log) \cap Range(runs[2].dl_log) :
            d = gen_doc_id(find_sheet_url(Submissions[p]))

\* C25: two runs process the same post and download the same document only
\* when one began while the other was under way; runs that follow one
\* another never do.
C25_DoubleProcessOnlyWhenOverlapping ==
    DoubleProcessed => runs[1].overlap \/ runs[2].overlap

\* two overlapping runs have both ended, having processed the same post and
\* downloaded the same document
C25_Witness ==
    /\ DoubleProcessed
    /\ runs[1].pc = "done"
    /\ runs[2].pc = "done"
    /\ runs[1].overlap \/ runs[2].overlap

\* --------------------------------------------- add_sheet_data: the record
\* C26 as claimed: the record of a document in hash 'sheets' is the parsed
\* SheetPost it was built from, the one under post:{id}, with sheet_raw and
\* sheet_dl_date attached and every other field kept.
C26_RecordKeepsPostFields ==
    \A d \in DOMAIN cache_sheets :
        \E sheet \in {cache_sheets[d].val} :
            /\ sheet.id \in DOMAIN cache_kv
            /\ sheet = [cache_kv[sheet.id].val EXCEPT
                           !.sheet_raw = sheet.sheet_raw,
                           !.sheet_dl_date = sheet.sheet_dl_date]

\* ------------------------------------ parse_submissions: posts of one run
\* parse_submissions has returned and sheet_query has its lists
Parsed == pc = "add_sheet_data"

\* C27: the posts parse_submissions returned have pairwise distinct ids,
\* however often the search listed a post; dedupe_submissions removes
\* nothing, so 'unique_sheet_posts' is 'posts'; and every post of the two
\* lists has a document URL.
C27_ParsedPostsDistinct ==
    Parsed =>
        /\ \A m, n \in 1..Len(sheet_posts) :
              sheet_posts[m].id = sheet_posts[n].id => m = n
        /\ u_posts = sheet_posts
        /\ \A m \in 1..Len(sheet_posts) : sheet_posts[m].sheet_url # None

\* the search listed one post twice, and parse_submissions returned it once
C27_Witness ==
    /\ Parsed
    /\ Len(ss) = 2
    /\ ss[1] = ss[2]
    /\ Len(sheet_posts) = 1
    /\ u_posts = sheet_posts

\* ------------------------------------------------ header_format, on its own
\* the grids header_parse formats: a header row may have rows before it and
\* rows after it
FormatGrids ==
    {Grid(columns, rows) :
        columns \in ColumnRows, rows \in SeqsUpTo(DataRows, MaxRows + 1)}

\* the Headers header_parse builds from what header_find returned
FoundHeaders(sheet_post, df, h) ==
    Headers(df, sheet_post, h.found, FALSE, h.match_count, h.loc, h.col_values)

InitFormat ==
    /\ PipelineInit
    /\ fn = "header_format"
    /\ arg \in {FoundHeaders(<<"ID1">>, df, header_find(df)) : df \in FormatGrids}
    /\ ret = FoundHeaders(<<"ID1">>, Grid(<<>>, <<>>), NoHeader)
    /\ log = <<>>

\* header_format(data)
HeaderFormat ==
    /\ fn = "header_format"
    /\ ret' = header_format(arg)
    /\ fn' = "returned"
    /\ UNCHANGED <<arg, log, pvars, dvars, runs>>

FormatNext == HeaderFormat

SpecFormat == InitFormat /\ [][FormatNext]_vars

\* C28: header_format of a header found at data row k of n makes the
\* lower-cased, trimmed values of row k the labels and keeps the n - k - 1
\* rows after row k in their order; of a header found at the column row it
\* keeps every row and normalizes the labels; of no header it changes
\* nothing; the other fields are left alone.
C28_FormatKeepsRowsAfterHeader ==
    fn = "returned" =>
        /\ ret = [arg EXCEPT !.df = ret.df]
        /\ (arg.found /\ arg.loc # ColumnLoc) =>
              /\ arg.loc \in 0..(Len(arg.df.rows) - 1)
              /\ ret.df.columns = RowLowerStrip(arg.df, arg.loc)
              /\ Len(ret.df.rows) = Len(arg.df.rows) - arg.loc - 1
              /\ \A m \in 1..Len(ret.df.rows) :
                    ret.df.rows[m] = arg.df.rows[arg.loc + 1 + m]
        /\ (arg.found /\ arg.loc = ColumnLoc) =>
              /\ ret.df.rows = arg.df.rows
              /\ ret.df.columns = df_lower_strip(arg.df)
        /\ ~arg.found => ret.df = arg.df

\* a header found at a row that has rows before it and rows after it
C28_Witness ==
    /\ fn = "returned"
    /\ arg.found
    /\ arg.loc # ColumnLoc
    /\ arg.loc >= 1
    /\ Len(ret.df.rows) >= 1
    /\ Len(ret.df.rows) = Len(arg.df.rows) - arg.loc - 1

====
